---- MODULE Spec2Model ----
(***************************************************************************)
(* A model of robinbryce/apikeys: the argon2id algorithm descriptor        *)
(* (algparams.go), the api key type with its generation, encoding,         *)
(* decoding and matching (argon2id.go, the display-name layout), and the   *)
(* earlier Basic-auth layout of Decode (unnamed/part_001).                  *)
(*                                                                         *)
(* A Go string and a Go []byte are both modelled as a sequence of bytes    *)
(* (0..255); a string literal is written as its ASCII codes, with the text *)
(* in a comment.                                                           *)
(***************************************************************************)
EXTENDS Integers, Sequences, FiniteSets, TLC

VARIABLES
    got,        \* the Key NewKey returned (the issuer's Key)
    ak,         \* the Key Decode returned (the verifier's Key)
    apikey,     \* the string the last Generate returned
    secret,     \* the password the last generatePasword returned (a local of Generate)
    decoded,    \* the []byte the last Decode returned
    err,        \* the error the last call returned: "nil", an error, or "panic"
    op,         \* the last call made
    args,       \* the arguments of the last call
    ret,        \* the value the last call returned beside its error
    kdf,        \* the arguments of the argon2.IDKey calls the last call made
    secrets,    \* every password generatePasword has drawn so far
    nrand       \* the number of blocks read from crypto/rand so far

vars == <<got, ak, apikey, secret, decoded, err, op, args, ret, kdf, secrets, nrand>>

-----------------------------------------------------------------------------
(* Constants of algparams.go *)

space == <<32>>                                             \* " "
algParts == 3
memSuffix == <<77, 66>>                                     \* "MB"
maxKeyLength == 64
minKeyLength == 16
maxMem == 64
minMem == 16
maxTime == 5
minTime == 1
argon2idAlgID == <<97, 114, 103, 111, 110, 50, 105, 100, 58>>   \* "argon2id:"

(* Constants of argon2id.go *)

StandardAlg == <<97, 114, 103, 111, 110, 50, 105, 100, 58, 51, 32, 54, 52, 77, 66, 32, 51, 50>>  \* "argon2id:3 64MB 32"
saltLen == 32
passwordLen == 32
apiKeyNameLen == 16
argon2Threads == 1
defaultClientNanoIDLen == 16
apiKeyNumParts == 5
apiKeyDisplayNamePrefixPart == 0
apiKeyIDPart == 1
apiKeyAlgPart == 2
apiKeySaltPartSwapped == 2 + 2
apiKeySaltPart == 3
apiKeyPasswordPart == 4
dot == <<46>>                                               \* "."

(* Constants of the Basic-auth layout (unnamed/part_001) *)

apiKeySecretParts == 3
basicAlgPart == 0
basicSaltPart == 1
basicPasswordPart == 2
colon == <<58>>                                             \* ":"

-----------------------------------------------------------------------------
(* Go's strings package, on byte sequences *)

HasPrefix(s, p) == Len(s) >= Len(p) /\ SubSeq(s, 1, Len(p)) = p

HasSuffix(s, p) == Len(s) >= Len(p) /\ SubSeq(s, Len(s) - Len(p) + 1, Len(s)) = p

\* strings.SplitN(s, sep, n) for n > 0 and a one-byte sep: at most n
\* substrings, cut at the first n-1 separators, the last one the unsplit
\* remainder.
SplitN(s, sep, n) ==
    LET P == { i \in 1..Len(s) : s[i] = sep[1] }
        cuts == IF Cardinality(P) > n - 1 THEN n - 1 ELSE Cardinality(P)
        pos == [k \in 1..cuts |->
                  CHOOSE p \in P : Cardinality({ q \in P : q < p }) = k - 1] \o <<>>
        start(k) == IF k = 1 THEN 1 ELSE pos[k - 1] + 1
        stop(k) == IF k = cuts + 1 THEN Len(s) ELSE pos[k] - 1
    IN [k \in 1..(cuts + 1) |-> SubSeq(s, start(k), stop(k))] \o <<>>

RECURSIVE Join(_, _)
Join(parts, sep) ==
    IF Len(parts) = 0 THEN <<>>
    ELSE IF Len(parts) = 1 THEN parts[1]
    ELSE parts[1] \o sep \o Join(Tail(parts), sep)

-----------------------------------------------------------------------------
(* strconv.ParseUint(s, 10, 32) *)

IsDigit(c) == c >= 48 /\ c <= 57

RECURSIVE StripZeros(_)
StripZeros(s) ==
    IF Len(s) > 1 /\ s[1] = 48 THEN StripZeros(Tail(s)) ELSE s

RECURSIVE DecVal(_)
DecVal(s) ==
    IF Len(s) = 0 THEN 0 ELSE DecVal(SubSeq(s, 1, Len(s) - 1)) * 10 + (s[Len(s)] - 48)

RECURSIVE LexLeq(_, _)
LexLeq(a, b) ==
    IF Len(a) = 0 THEN TRUE
    ELSE IF a[1] # b[1] THEN a[1] < b[1]
    ELSE LexLeq(Tail(a), Tail(b))

maxUint32Digits == <<52, 50, 57, 52, 57, 54, 55, 50, 57, 53>>   \* "4294967295"

maxInt32Digits == <<50, 49, 52, 55, 52, 56, 51, 54, 52, 55>>    \* "2147483647"

\* The position of the first byte of s that is not a decimal digit, Len(s) + 1
\* when there is none.
FirstNonDigit(s) ==
    LET N == { i \in 1..Len(s) : ~IsDigit(s[i]) }
    IN IF N = {} THEN Len(s) + 1 ELSE CHOOSE i \in N : \A j \in N : i <= j

\* The digits d have a value above 2^32-1.
ExceedsUint32(d) ==
    LET z == StripZeros(d)
    IN Len(z) > 10 \/ (Len(z) = 10 /\ ~LexLeq(z, maxUint32Digits))

\* The value of the numeral z (no leading zeros, at most 2^32-1) as the 32
\* bits of a uint32 in a 32-bit integer: the value itself up to 2^31-1 and
\* the value less 2^32 from 2^31 on, so that 4294967295 is -1.
Uint32Val(z) ==
    IF Len(z) < 10 \/ LexLeq(z, maxInt32Digits) THEN DecVal(z)
    ELSE 10 * (DecVal(SubSeq(z, 1, 9)) - 429496728) + ((z[10] - 48) - 16)

\* a > b and a < b for 32 bits a read as a uint32 and a small b >= 0
Uint32Gt(a, b) == a < 0 \/ a > b
Uint32Lt(a, b) == a >= 0 /\ a < b

\* The bytes are read from the left.  A digit that takes the value above
\* 2^32-1 ends the call with a range error and the value 2^32-1; a byte that
\* is not a decimal digit (no sign, no underscore in base 10), met before
\* that, and the empty string are a syntax error with the value 0.
ParseUint(s) ==
    IF Len(s) = 0 THEN [err |-> "syntax", val |-> 0]
    ELSE
    LET m == FirstNonDigit(s) IN
    IF ExceedsUint32(SubSeq(s, 1, m - 1))
    THEN [err |-> "range", val |-> Uint32Val(maxUint32Digits)]
    ELSE IF m <= Len(s) THEN [err |-> "syntax", val |-> 0]
    ELSE [err |-> "nil", val |-> Uint32Val(StripZeros(s))]

-----------------------------------------------------------------------------
(* algparams.go *)

\* The zero value Alg{}
ZeroAlg == [String |-> <<>>, Time |-> 0, Memory |-> 0, KeyLen |-> 0]

AlgError(e) == [err |-> e, alg |-> ZeroAlg]

\* ParseAlg with the bounds as parameters, in the order of the code's checks.
ParseAlgBounds(alg, loT, hiT, loM, hiM, loK, hiK) ==
    IF ~HasPrefix(alg, argon2idAlgID)
    THEN AlgError("missing or unsupported algorithm name")
    ELSE
    LET rest == SubSeq(alg, Len(argon2idAlgID) + 1, Len(alg))
        parts == SplitN(rest, space, algParts)
    IN
    IF Len(parts) # 3 THEN AlgError("bad alg string")
    ELSE
    LET t == ParseUint(parts[1]) IN
    IF t.err # "nil" THEN AlgError("bad times component")
    ELSE IF Uint32Gt(t.val, hiT) THEN AlgError("time too large")
    ELSE IF Uint32Lt(t.val, loT) THEN AlgError("time too small")
    ELSE IF ~HasSuffix(parts[2], memSuffix) THEN AlgError("bad memory suffix")
    ELSE
    LET m == ParseUint(SubSeq(parts[2], 1, Len(parts[2]) - Len(memSuffix))) IN
    IF m.err # "nil" THEN AlgError("bad memory component")
    ELSE IF Uint32Gt(m.val, hiM) THEN AlgError("memory too large")
    ELSE IF Uint32Lt(m.val, loM) THEN AlgError("memory too small")
    ELSE
    LET k == ParseUint(parts[3]) IN
    IF k.err # "nil" THEN AlgError("bad keylength")
    ELSE IF Uint32Gt(k.val, hiK) THEN AlgError("key length too large")
    ELSE IF Uint32Lt(k.val, loK) THEN AlgError("key length too small")
    ELSE [err |-> "nil",
          alg |-> [String |-> alg, Time |-> t.val, Memory |-> m.val, KeyLen |-> k.val]]

\* A ParseAlg that forgets the lower bound of the time cost.
ParseAlgNoMinTime(alg) ==
    ParseAlgBounds(alg, 0, maxTime, minMem, maxMem, minKeyLength, maxKeyLength)

ParseAlg(alg) ==
    ParseAlgBounds(alg, minTime, maxTime, minMem, maxMem, minKeyLength, maxKeyLength)

-----------------------------------------------------------------------------
(* encoding/base64: base64.URLEncoding, the URL-safe alphabet with '=' padding *)

\* "ABCDEFGHIJKLMNOPQRSTUVWXYZabcdefghijklmnopqrstuvwxyz0123456789-_"
encodeURL ==
    <<65, 66, 67, 68, 69, 70, 71, 72, 73, 74, 75, 76, 77, 78, 79, 80, 81, 82, 83, 84, 85, 86, 87,
      88, 89, 90, 97, 98, 99, 100, 101, 102, 103, 104, 105, 106, 107, 108, 109, 110, 111, 112,
      113, 114, 115, 116, 117, 118, 119, 120, 121, 122, 48, 49, 50, 51, 52, 53, 54, 55, 56, 57,
      45, 95>>

padChar == <<61>>                                           \* "="

\* The byte of b at position i, 0 beyond its end.
ByteAt(b, i) == IF i <= Len(b) THEN b[i] ELSE 0

\* The i-th character of the encoding of b: four characters for every three
\* bytes, the last group padded.
EncodedChar(b, i) ==
    LET g == (i - 1) \div 4
        b0 == ByteAt(b, 3 * g + 1)
        b1 == ByteAt(b, 3 * g + 2)
        b2 == ByteAt(b, 3 * g + 3)
        pos == (i - 1) % 4
    IN IF pos = 0 THEN encodeURL[(b0 \div 4) + 1]
       ELSE IF pos = 1 THEN encodeURL[((b0 % 4) * 16 + (b1 \div 16)) + 1]
       ELSE IF pos = 2
       THEN IF 3 * g + 2 > Len(b) THEN padChar[1]
            ELSE encodeURL[((b1 % 16) * 4 + (b2 \div 64)) + 1]
       ELSE IF 3 * g + 3 > Len(b) THEN padChar[1]
            ELSE encodeURL[(b2 % 64) + 1]

EncodeToString(b) ==
    [i \in 1..(4 * ((Len(b) + 2) \div 3)) |-> EncodedChar(b, i)] \o <<>>

\* The 6-bit value of a character of the alphabet, 255 for any other byte
\* (the decodeMap of the encoding).
DecodeMap(c) ==
    IF c >= 65 /\ c <= 90 THEN c - 65
    ELSE IF c >= 97 /\ c <= 122 THEN c - 71
    ELSE IF c >= 48 /\ c <= 57 THEN c + 4
    ELSE IF c = 45 THEN 62
    ELSE IF c = 95 THEN 63
    ELSE 255

IsNewline(c) == c = 10 \/ c = 13

NotNewline(c) == ~IsNewline(c)

\* The decoder skips '\r' and '\n' wherever they stand.
StripNewlines(s) == SelectSeq(s, NotNewline)

\* The number of padding characters that end t: 0, 1 or 2.
PadCount(t) ==
    IF Len(t) >= 2 /\ t[Len(t)] = padChar[1] /\ t[Len(t) - 1] = padChar[1] THEN 2
    ELSE IF Len(t) >= 1 /\ t[Len(t)] = padChar[1] THEN 1
    ELSE 0

\* What the decoder accepts: quanta of four characters of the alphabet, the
\* last one alone ending in "=" or "==".  An input that ends inside a quantum,
\* a byte outside the alphabet, and padding anywhere else are corrupt input.
\* (The encoding is not strict: the unused bits of the last quantum are free.)
WellFormedBase64(t) ==
    /\ Len(t) % 4 = 0
    /\ \A i \in 1..(Len(t) - PadCount(t)) : DecodeMap(t[i]) # 255

SixBits(t, i) == IF t[i] = padChar[1] THEN 0 ELSE DecodeMap(t[i])

\* The i-th byte decoded from the well-formed t.
DecodedByte(t, i) ==
    LET g == (i - 1) \div 3
        v1 == SixBits(t, 4 * g + 1)
        v2 == SixBits(t, 4 * g + 2)
        v3 == SixBits(t, 4 * g + 3)
        v4 == SixBits(t, 4 * g + 4)
        pos == (i - 1) % 3
    IN IF pos = 0 THEN v1 * 4 + (v2 \div 16)
       ELSE IF pos = 1 THEN (v2 % 16) * 16 + (v3 \div 4)
       ELSE (v3 % 4) * 64 + v4

\* The number of quanta of four characters of the alphabet that t begins with
FullQuanta(t) ==
    LET B == { k \in 0..(Len(t) \div 4) : \A i \in 1..(4 * k) : DecodeMap(t[i]) # 255 }
    IN CHOOSE k \in B : \A l \in B : l <= k

\* The number of bytes decoded from a t that is not well-formed when the
\* decoder meets the error: three for every quantum before the corrupt one,
\* which itself gives no byte unless it is a padded quantum and the error is
\* that something follows it.
DecodedBeforeError(t) ==
    LET g == FullQuanta(t)
        p == 4 * g + 1
        v(i) == i <= Len(t) /\ DecodeMap(t[i]) # 255
        j == IF ~v(p) THEN 0 ELSE IF ~v(p + 1) THEN 1 ELSE IF ~v(p + 2) THEN 2 ELSE 3
        padded == /\ j >= 2
                  /\ p + 3 <= Len(t)
                  /\ \A i \in (p + j)..(p + 3) : t[i] = padChar[1]
    IN IF padded THEN 3 * g + j - 1 ELSE 3 * g

\* base64.URLEncoding.DecodeString: with an error come the bytes decoded
\* before it.
DecodeString(s) ==
    LET t == StripNewlines(s) IN
    IF ~WellFormedBase64(t)
    THEN [err |-> "illegal base64 data",
          bytes |-> [i \in 1..DecodedBeforeError(t) |-> DecodedByte(t, i)] \o <<>>]
    ELSE [err |-> "nil",
          bytes |-> [i \in 1..(3 * (Len(t) \div 4) - PadCount(t)) |-> DecodedByte(t, i)]
                      \o <<>>]

-----------------------------------------------------------------------------
(* The descriptors ParseAlg is applied to: every concatenation of a prefix, a
   time field, a separator, a memory field, a separator and a length field. *)

AlgPrefixes == {
    argon2idAlgID,
    <<97, 114, 103, 111, 110, 50, 105, 100, 32>>,           \* "argon2id "
    <<>> }

TimeFields == {
    <<48>>, <<49>>, <<53>>, <<54>>,                         \* "0" "1" "5" "6"
    <<48, 51>>,                                             \* "03"
    <<43, 51>>,                                             \* "+3"
    <<52, 50, 57, 52, 57, 54, 55, 50, 57, 55>>,             \* "4294967297" (1 mod 2^32)
    <<>> }

Separators == { space, <<32, 32>>, <<>> }

MemFields == {
    <<49, 53, 77, 66>>, <<49, 54, 77, 66>>,                 \* "15MB" "16MB"
    <<54, 52, 77, 66>>, <<54, 53, 77, 66>>,                 \* "64MB" "65MB"
    <<48, 54, 52, 77, 66>>,                                 \* "064MB"
    <<54, 52, 77>>, <<54, 52>>, <<54, 52, 77, 88>>,         \* "64M" "64" "64MX"
    memSuffix }

LenFields == {
    <<49, 53>>, <<49, 54>>, <<54, 52>>, <<54, 53>>,         \* "15" "16" "64" "65"
    <<48, 48, 51, 50>>,                                     \* "0032"
    <<51, 50, 32>>,                                         \* "32 "
    <<51, 46, 50>>,                                         \* "3.2"
    <<>> }

AlgInputs ==
    { p \o t \o s1 \o m \o s2 \o k :
        p \in AlgPrefixes, t \in TimeFields, s1 \in Separators,
        m \in MemFields, s2 \in {space, <<>>}, k \in LenFields }

-----------------------------------------------------------------------------
(* argon2id.go: the Key type *)

\* The zero value Key{}: a nil slice and an empty string are both <<>>.
ZeroKey ==
    [alg |-> ZeroAlg, Salt |-> <<>>, DerivedKey |-> <<>>,
     ClientID |-> <<>>, DisplayName |-> <<>>]

\* No argument, no result.
None == <<>>

-----------------------------------------------------------------------------
(* golang.org/x/crypto/argon2, crypto/rand and go-nanoid, as the code uses them *)

\* argon2.IDKey is deterministic and taken to be free of collisions: the key
\* it derives is keyLen symbols, the first of which names the arguments it was
\* derived from, so that two keys are equal exactly when their arguments are.
\* It panics when the number of rounds or the parallelism is below 1.
IDKey(password, salt, time, memory, threads, keyLen) ==
    IF time < 1 \/ threads < 1
    THEN [err |-> "panic", key |-> <<>>]
    ELSE [err |-> "nil",
          key |-> [i \in 1..keyLen |->
                     IF i = 1
                     THEN <<"argon2id", password, salt, time, memory, threads, keyLen>>
                     ELSE <<"byte", i>>]]

\* The arguments of one argon2.IDKey call.
KdfCall(time, memory, threads, keyLen) ==
    [time |-> time, memory |-> memory, threads |-> threads, keyLen |-> keyLen]

\* make([]byte, n)
Zeros(n) == [i \in 1..n |-> 0]

\* The k-th block of n bytes the random source delivers, for a seed.  Blocks
\* of different k differ: the source is cryptographically secure and never
\* repeats a block.
RandBlock(k, seed, n) == [i \in 1..n |-> (67 * k + 101 * seed + 29 * i) % 256]

\* rand.Read(buf): the buffer after the read and what the read returned.  A
\* read that reports an error or comes back short leaves the rest of the
\* buffer as it was.
RandRead(buf, k, o) ==
    [buf |-> [i \in 1..Len(buf) |->
                IF i <= o.n THEN RandBlock(k, o.seed, Len(buf))[i] ELSE buf[i]] \o <<>>,
     n |-> o.n, err |-> o.err]

\* What a read of 32 bytes can return: all of them, an error, or fewer bytes.
RandOutcomes == {
    [n |-> 32, err |-> "nil", seed |-> 0],
    [n |-> 0, err |-> "rand", seed |-> 0],
    [n |-> 16, err |-> "nil", seed |-> 0] }

\* nanoid.ID(16): an identifier over the URL-safe alphabet, or an error and "".
NanoIDOutcomes == {
    [id |-> <<86, 49, 83, 116, 71, 88, 82, 56, 95, 90, 53, 106, 100, 72, 105, 54>>,  \* "V1StGXR8_Z5jdHi6"
     err |-> "nil"],
    [id |-> <<>>, err |-> "nanoid"] }

-----------------------------------------------------------------------------
(* argon2id.go: the options, NewKey and SetOptions *)

WithClientID(clientID) == [opt |-> "WithClientID", v |-> clientID]
WithDisplayName(name) == [opt |-> "WithDisplayName", v |-> name]

\* o(ak) for one option
ApplyOption(k, o) ==
    IF o.opt = "WithClientID" THEN [k EXCEPT !.ClientID = o.v]
    ELSE [k EXCEPT !.DisplayName = o.v]

\* for _, o := range opts { o(ak) }
RECURSIVE ApplyOptions(_, _)
ApplyOptions(k, opts) ==
    IF Len(opts) = 0 THEN k
    ELSE ApplyOptions(ApplyOption(k, Head(opts)), Tail(opts))

\* ak.SetOptions(alg, opts...) with the outcome id of nanoid.ID, should it be
\* called: the Key afterwards and the error returned.  The error of ParseAlg
\* is returned with its zero Alg stored; the error of nanoid.ID is answered
\* with "return nil", its empty identifier stored.
SetOptions(k, alg, opts, id) ==
    LET p == ParseAlg(alg)
        k1 == [k EXCEPT !.alg = p.alg]
    IN IF p.err # "nil" THEN [ak |-> k1, err |-> p.err]
       ELSE LET k2 == ApplyOptions(k1, opts) IN
            IF Len(k2.ClientID) = 0
            THEN [ak |-> [k2 EXCEPT !.ClientID = id.id], err |-> "nil"]
            ELSE [ak |-> k2, err |-> "nil"]

\* NewKey(alg, opts...): SetOptions on a zero Key; the Key is returned with
\* the error.
NewKey(alg, opts, id) == SetOptions(ZeroKey, alg, opts, id)

-----------------------------------------------------------------------------
(* argon2id.go: generatePasword and Generate *)

\* n != saltLen, n != passwordLen: the read came back short.
InsufficientBytesNever(n, want) == FALSE

InsufficientBytes(n, want) == n # want

\* ak.generatePasword() with the outcomes o1, o2 of the two reads, after n
\* earlier reads: the Key afterwards, the password and the error returned,
\* the argon2.IDKey calls made and the number of reads made.
generatePasword(k, o1, o2, n) ==
    LET r1 == RandRead(Zeros(saltLen), n + 1, o1)
        k1 == [k EXCEPT !.Salt = r1.buf]
        r2 == RandRead(Zeros(passwordLen), n + 2, o2)
        d == IDKey(r2.buf, k1.Salt, k1.alg.Time, k1.alg.Memory, argon2Threads, k1.alg.KeyLen)
        call == KdfCall(k1.alg.Time, k1.alg.Memory, argon2Threads, k1.alg.KeyLen)
    IN IF r1.err # "nil"
       THEN [ak |-> k1, password |-> <<>>, err |-> r1.err, kdf |-> {}, reads |-> 1]
       ELSE IF InsufficientBytes(r1.n, saltLen)
       THEN [ak |-> k1, password |-> <<>>, err |-> "insufficient rand bytes generating salt",
             kdf |-> {}, reads |-> 1]
       ELSE IF r2.err # "nil"
       THEN [ak |-> k1, password |-> <<>>, err |-> r2.err, kdf |-> {}, reads |-> 2]
       ELSE IF InsufficientBytes(r2.n, passwordLen)
       THEN [ak |-> k1, password |-> <<>>, err |-> "insufficient rand bytes generating password",
             kdf |-> {}, reads |-> 2]
       ELSE IF d.err # "nil"
       THEN [ak |-> k1, password |-> r2.buf, err |-> d.err, kdf |-> {call}, reads |-> 2]
       ELSE [ak |-> [k1 EXCEPT !.DerivedKey = d.key], password |-> r2.buf, err |-> "nil",
             kdf |-> {call}, reads |-> 2]

\* name[:apiKeyNameLen] when the name is longer
NamePrefix(name) ==
    IF Len(name) > apiKeyNameLen THEN SubSeq(name, 1, apiKeyNameLen) ELSE name

\* The string Generate builds from the Key and the password.
EncodeKey(k, password) ==
    LET salt == EncodeToString(k.Salt)
        pw == EncodeToString(password)
        name == NamePrefix(k.DisplayName)
        s == Join(<<name, k.ClientID, k.alg.String, salt, pw>>, dot)
    IN EncodeToString(s)

\* ak.Generate()
Generate(k, o1, o2, n) ==
    LET g == generatePasword(k, o1, o2, n)
    IN IF g.err # "nil" THEN [g EXCEPT !.password = <<>>] @@ [apikey |-> <<>>]
       ELSE g @@ [apikey |-> EncodeKey(g.ak, g.password)]

-----------------------------------------------------------------------------
(* argon2id.go: Decode *)

DecodeError(e) == [ak |-> ZeroKey, password |-> <<>>, err |-> e]

\* The part of the split artifact a Go index names.
Part(parts, index) == parts[index + 1]

\* Decode(apikey), the display-name layout
Decode(in) ==
    LET b == DecodeString(in) IN
    IF b.err # "nil" THEN DecodeError(b.err)
    ELSE
    LET parts == SplitN(b.bytes, dot, apiKeyNumParts + 1) IN
    IF Len(parts) # apiKeyNumParts THEN DecodeError("invalid number of parts")
    ELSE
    LET p == ParseAlg(Part(parts, apiKeyAlgPart)) IN
    IF p.err # "nil" THEN DecodeError(p.err)
    ELSE
    LET salt == DecodeString(Part(parts, apiKeySaltPart)) IN
    IF salt.err # "nil" THEN DecodeError(salt.err)
    ELSE
    LET password == DecodeString(Part(parts, apiKeyPasswordPart)) IN
    IF password.err # "nil" THEN DecodeError(password.err)
    ELSE [ak |-> [alg |-> p.alg, Salt |-> salt.bytes, DerivedKey |-> <<>>,
                  ClientID |-> Part(parts, apiKeyIDPart),
                  DisplayName |-> Part(parts, apiKeyDisplayNamePrefixPart)],
          password |-> password.bytes, err |-> "nil"]

-----------------------------------------------------------------------------
(* argon2id.go: RecoverKey and MatchPassword *)

\* A comparison of the lengths alone.
BytesEqualLength(a, b) == Len(a) = Len(b)

\* bytes.Equal
BytesEqual(a, b) == a = b

\* ak.RecoverKey(password): the key, or the panic of argon2.IDKey
RecoverKey(k, password) ==
    IDKey(password, k.Salt, k.alg.Time, k.alg.Memory, argon2Threads, k.alg.KeyLen)

\* A MatchPassword that compares the candidate and leaves the Key alone.
MatchPasswordNoStore(k, password, key) ==
    LET d == RecoverKey(k, password) IN
    [ak |-> k, ret |-> d.err = "nil" /\ BytesEqual(d.key, key), err |-> d.err]

\* ak.MatchPassword(password, key): the Key afterwards and the result
MatchPassword(k, password, key) ==
    LET d == RecoverKey(k, password) IN
    IF d.err # "nil" THEN [ak |-> k, ret |-> FALSE, err |-> d.err]
    ELSE [ak |-> [k EXCEPT !.DerivedKey = d.key],
          ret |-> BytesEqual(d.key, key), err |-> "nil"]

-----------------------------------------------------------------------------
(* The calls a program makes on its two Keys: the issuer's, made by NewKey
   and used to Generate, and the verifier's, returned by Decode and used to
   RecoverKey and MatchPassword (as TestNewAPIKey does). *)

\* The number of reads of the random source a run may make.
MaxReads == 3

SmallAlg == <<97, 114, 103, 111, 110, 50, 105, 100, 58, 49, 32, 49, 54, 77, 66, 32, 49, 54>>  \* "argon2id:1 16MB 16"
BadAlg == <<97, 114, 103, 111, 110, 50, 105, 100, 58, 54, 32, 54, 52, 77, 66, 32, 51, 50>>    \* "argon2id:6 64MB 32"

\* "0123456789123456longer than the allowed 16 chars"
LongName ==
    <<48, 49, 50, 51, 52, 53, 54, 55, 56, 57, 49, 50, 51, 52, 53, 54, 108, 111, 110, 103, 101,
      114, 32, 116, 104, 97, 110, 32, 116, 104, 101, 32, 97, 108, 108, 111, 119, 101, 100, 32,
      49, 54, 32, 99, 104, 97, 114, 115>>

\* The descriptor and the options given to NewKey: no option, a client id
\* (of two, the second wins), a display name, or both.
NewKeyInputs == {
    [alg |-> StandardAlg, opts |-> <<>>],
    [alg |-> StandardAlg,                                   \* "c.d", then "cid"; "api"
     opts |-> <<WithClientID(<<99, 46, 100>>), WithClientID(<<99, 105, 100>>),
                WithDisplayName(<<97, 112, 105>>)>>],
    [alg |-> SmallAlg,                                      \* "cid"
     opts |-> <<WithClientID(<<99, 105, 100>>), WithDisplayName(LongName)>>],
    [alg |-> StandardAlg,                                   \* "cid"; "a.b"
     opts |-> <<WithClientID(<<99, 105, 100>>), WithDisplayName(<<97, 46, 98>>)>>],
    [alg |-> SmallAlg, opts |-> <<WithClientID(<<99, 46, 100>>)>>],        \* "c.d"
    [alg |-> BadAlg, opts |-> <<WithClientID(<<99, 105, 100>>)>>] }        \* "cid"

\* The descriptors and option lists given to SetOptions on a Key in use.
LaterDescriptors == { SmallAlg, BadAlg }
LaterOptionLists == { <<>> }

\* The passwords presented to the verifier's Key: the one Decode returned,
\* the empty byte string, and 32 bytes that no read delivered.
Passwords == { decoded, <<>>, Zeros(passwordLen) }

\* The stored keys a presented password is matched against: the issuer's
\* derived key and its first half, a key of another length.
StoredKeys ==
    { got.DerivedKey, SubSeq(got.DerivedKey, 1, Len(got.DerivedKey) \div 2) }

Init ==
    /\ got = ZeroKey /\ ak = ZeroKey
    /\ apikey = <<>> /\ secret = <<>> /\ decoded = <<>>
    /\ err = "nil" /\ op = "init" /\ args = None /\ ret = None
    /\ kdf = {} /\ secrets = {} /\ nrand = 0

Running == op # "input" /\ err # "panic"

CallNewKey ==
    /\ op = "init"
    /\ \E in \in NewKeyInputs, id \in NanoIDOutcomes :
         LET r == NewKey(in.alg, in.opts, id)
         IN /\ got' = r.ak
            /\ err' = r.err
            /\ args' = in
    /\ op' = "NewKey" /\ ret' = None /\ kdf' = {}
    /\ UNCHANGED <<ak, apikey, secret, decoded, secrets, nrand>>

CallSetOptions ==
    /\ Running
    /\ \E alg \in LaterDescriptors, opts \in LaterOptionLists, id \in NanoIDOutcomes :
         LET r == SetOptions(got, alg, opts, id)
         IN /\ got' = r.ak
            /\ err' = r.err
            /\ args' = [alg |-> alg, opts |-> opts]
    /\ op' = "SetOptions" /\ ret' = None /\ kdf' = {}
    /\ UNCHANGED <<ak, apikey, secret, decoded, secrets, nrand>>

CallGenerate ==
    /\ Running
    /\ nrand < MaxReads
    /\ \E o1 \in RandOutcomes :
       \E o2 \in IF o1.err = "nil" /\ o1.n = saltLen THEN RandOutcomes ELSE {o1} :
         LET r == Generate(got, o1, o2, nrand)
         IN /\ got' = r.ak
            /\ apikey' = r.apikey
            /\ secret' = r.password
            /\ secrets' = IF r.err = "nil" THEN secrets \cup {r.password} ELSE secrets
            /\ kdf' = r.kdf
            /\ nrand' = nrand + r.reads
            /\ err' = r.err
            /\ args' = IF r.reads = 1 THEN <<o1>> ELSE <<o1, o2>>
    /\ op' = "Generate" /\ ret' = None
    /\ UNCHANGED <<ak, decoded>>

CallDecode ==
    /\ Running
    /\ LET r == Decode(apikey)
       IN /\ ak' = r.ak
          /\ decoded' = r.password
          /\ err' = r.err
    /\ op' = "Decode" /\ args' = None /\ ret' = None /\ kdf' = {}
    /\ UNCHANGED <<got, apikey, secret, secrets, nrand>>

CallRecoverKey ==
    /\ Running
    /\ \E p \in Passwords :
         LET r == RecoverKey(ak, p)
         IN /\ ret' = r.key
            /\ err' = r.err
            /\ args' = [password |-> p]
    /\ kdf' = {KdfCall(ak.alg.Time, ak.alg.Memory, argon2Threads, ak.alg.KeyLen)}
    /\ op' = "RecoverKey"
    /\ UNCHANGED <<got, ak, apikey, secret, decoded, secrets, nrand>>

CallMatchPassword ==
    /\ Running
    /\ \E p \in Passwords, key \in StoredKeys :
         LET r == MatchPassword(ak, p, key)
         IN /\ ak' = r.ak
            /\ ret' = r.ret
            /\ err' = r.err
            /\ args' = [password |-> p, key |-> key]
    /\ kdf' = {KdfCall(ak.alg.Time, ak.alg.Memory, argon2Threads, ak.alg.KeyLen)}
    /\ op' = "MatchPassword"
    /\ UNCHANGED <<got, apikey, secret, decoded, secrets, nrand>>

Next ==
    \/ CallNewKey
    \/ CallSetOptions
    \/ CallGenerate
    \/ CallDecode
    \/ CallRecoverKey
    \/ CallMatchPassword

Spec == Init /\ [][Next]_vars

-----------------------------------------------------------------------------
(* C1 *)

\* The first n bytes of s, all of s when it is shorter.
FirstBytes(s, n) == [i \in 1..(IF Len(s) < n THEN Len(s) ELSE n) |-> s[i]]

\* Decode applied to the artifact returns the fields the Key k was encoded
\* with, and the password pw.
DecodesTo(artifact, k, pw) ==
    LET d == Decode(artifact) IN
    /\ d.err = "nil"
    /\ d.ak.ClientID = k.ClientID
    /\ d.ak.DisplayName = FirstBytes(k.DisplayName, 16)
    /\ d.ak.alg.String = k.alg.String
    /\ d.ak.Salt = k.Salt
    /\ d.password = pw

\* C1: whenever Generate has returned an artifact, for any client id and any
\* display name, Decode of the artifact succeeds and returns the Key's
\* ClientID, the first 16 bytes of its display name, its descriptor, its salt
\* and the password the key was derived from.
C1_RoundTrip ==
    (op = "Generate" /\ err = "nil") => DecodesTo(apikey, got, secret)

HasDot(s) == \E i \in 1..Len(s) : s[i] = dot[1]

\* The round trip of the artifacts whose display-name prefix and client id
\* hold no '.'.
RoundTripWithoutDot ==
    (/\ op = "Generate" /\ err = "nil"
     /\ ~HasDot(FirstBytes(got.DisplayName, 16)) /\ ~HasDot(got.ClientID))
        => DecodesTo(apikey, got, secret)

-----------------------------------------------------------------------------
(* C2 *)

\* The key argon2.IDKey derives for the Key k from the password p.
DerivedFor(k, p) ==
    IDKey(p, k.Salt, k.alg.Time, k.alg.Memory, argon2Threads, k.alg.KeyLen).key

ValidAlg(a) ==
    /\ a.Time \in minTime..maxTime
    /\ a.Memory \in minMem..maxMem
    /\ a.KeyLen \in minKeyLength..maxKeyLength

\* The verifier's Key carries the salt and algorithm of the issuer's, whose
\* derived key is the one derived from the issued secret.
VerifiesIssued ==
    /\ Len(secret) = passwordLen
    /\ ak.Salt = got.Salt /\ ak.alg = got.alg
    /\ got.DerivedKey = DerivedFor(got, secret)

\* C2: on a Key with a valid algorithm MatchPassword(p, k) returns no error and
\* is true exactly when k is the key derived from p, the Key's salt and its
\* algorithm: against the issued derived key it is true for the issued secret
\* and false for every other password, the empty one included, and it is false
\* for a stored key of another length.
C2_MatchCorrect ==
    (op = "MatchPassword" /\ ValidAlg(ak.alg)) =>
        /\ err = "nil"
        /\ ret \in BOOLEAN
        /\ ret <=> (args.key = DerivedFor(ak, args.password))
        /\ (VerifiesIssued /\ args.key = got.DerivedKey) => (ret <=> (args.password = secret))
        /\ Len(args.key) # ak.alg.KeyLen => ~ret

\* The issued secret, decoded from the artifact, has matched the issued key.
C2_Witness ==
    /\ op = "MatchPassword" /\ ret = TRUE
    /\ VerifiesIssued /\ args.password = secret /\ args.key = got.DerivedKey

\* A wrong password and the empty password have been refused for the issued key.
C2_WitnessRefused ==
    /\ op = "MatchPassword" /\ ret = FALSE
    /\ VerifiesIssued /\ args.password = <<>> /\ args.key = got.DerivedKey

-----------------------------------------------------------------------------
(* C4 *)

\* s occurs in the byte string f.
Holds(f, s) ==
    \E i \in 1..(Len(f) - Len(s) + 1) : SubSeq(f, i, i + Len(s) - 1) = s

\* The derived key is none, or symbols that argon2.IDKey returned.
IsDerivedKey(d) == Len(d) = 0 \/ d[1][1] = "argon2id"

\* No field of the Key k holds the password s, raw or in its base64 text.
KeepsNo(k, s) ==
    /\ \A f \in {k.Salt, k.ClientID, k.DisplayName, k.alg.String} :
          ~Holds(f, s) /\ ~Holds(f, EncodeToString(s))
    /\ IsDerivedKey(k.DerivedKey)

\* C4: after any sequence of calls no field of a Key (alg, Salt, DerivedKey,
\* ClientID, DisplayName) holds a password that generatePasword drew; the
\* password is in the artifact and in what Decode returns.
C4_SecretNotStored ==
    \A s \in secrets : KeepsNo(got, s) /\ KeepsNo(ak, s)

\* A password has been issued, decoded again and matched, on Keys that carry
\* the salt and the derived key.
C4_Witness ==
    /\ op = "MatchPassword" /\ ret = TRUE
    /\ secret \in secrets /\ decoded = secret
    /\ Len(ak.Salt) = saltLen /\ Len(ak.DerivedKey) > 0

-----------------------------------------------------------------------------
(* C5 *)

\* C5: every call of argon2.IDKey that a call makes, whatever calls came before and whether or
\* not they returned an error, has a time cost in [1,5], a memory cost in
\* [16,64] and an output length in [16,64].
C5_KdfInBounds ==
    \A c \in kdf :
        /\ c.time \in 1..5
        /\ c.memory \in 16..64
        /\ c.keyLen \in 16..64

-----------------------------------------------------------------------------
(* C6 *)

FullRead(o) == o.err = "nil" /\ o.n = 32

\* C6: a Generate that returns no error has set Salt to the 32 bytes of one
\* read, drawn the password as the 32 bytes of the next read, and set
\* DerivedKey to the key derived from that password, the Salt and the
\* algorithm, of the algorithm's output length; a read that reports an error
\* or comes back short makes Generate return an error and the empty string,
\* and is the last read of the call.
C6_GenerateContract ==
    op = "Generate" =>
        /\ err = "nil" =>
              /\ Len(args) = 2 /\ FullRead(args[1]) /\ FullRead(args[2])
              /\ got.Salt = RandBlock(nrand - 1, args[1].seed, 32)
              /\ secret = RandBlock(nrand, args[2].seed, 32)
              /\ secret # got.Salt
              /\ got.DerivedKey = DerivedFor(got, secret)
              /\ Len(got.DerivedKey) = got.alg.KeyLen
              /\ Len(apikey) > 0
        /\ (\E i \in 1..Len(args) : ~FullRead(args[i])) =>
              /\ err \notin {"nil", "panic"}
              /\ apikey = <<>>
              /\ \A i \in 1..Len(args) : ~FullRead(args[i]) => i = Len(args)

\* Generate has succeeded on a Key whose output length is not 32.
C6_Witness ==
    /\ op = "Generate" /\ err = "nil"
    /\ got.alg.KeyLen = 16 /\ Len(got.DerivedKey) = 16
    /\ Len(got.Salt) = 32 /\ Len(secret) = 32

\* Generate has failed on a short read of the password.
C6_WitnessShort ==
    /\ op = "Generate" /\ err # "nil"
    /\ Len(args) = 2 /\ args[2].n = 16 /\ apikey = <<>>

-----------------------------------------------------------------------------
(* C7 *)

\* The client id the caller gave: that of the last WithClientID, if any.
RECURSIVE GivenClientID(_)
GivenClientID(opts) ==
    IF Len(opts) = 0 THEN <<>>
    ELSE IF opts[Len(opts)].opt = "WithClientID" THEN opts[Len(opts)].v
    ELSE GivenClientID(SubSeq(opts, 1, Len(opts) - 1))

\* C7: a Key that NewKey or SetOptions returns without an error has a
\* ClientID that is not empty: the one given with WithClientID when that is
\* not empty, and otherwise, on a new Key, one of the default length 16.
C7_ClientIDNeverEmpty ==
    (op \in {"NewKey", "SetOptions"} /\ err = "nil") =>
        /\ Len(got.ClientID) > 0
        /\ Len(GivenClientID(args.opts)) > 0 => got.ClientID = GivenClientID(args.opts)
        /\ (op = "NewKey" /\ Len(GivenClientID(args.opts)) = 0) => Len(got.ClientID) = 16

-----------------------------------------------------------------------------
(* C8 *)

\* C8: RecoverKey and MatchPassword leave every field of the Key as it was.
C8_VerificationLeavesKey ==
    [][op' \in {"RecoverKey", "MatchPassword"} => ak' = ak /\ got' = got]_vars

\* C8, amended: RecoverKey leaves every field of the Key as it was;
\* MatchPassword leaves alg, Salt, ClientID and DisplayName as they were and
\* stores the recomputed candidate in DerivedKey, whatever the result.
C8_OnlyDerivedKeyStored ==
    [][/\ op' = "RecoverKey" => ak' = ak /\ got' = got
       /\ (op' = "MatchPassword" /\ err' = "nil") =>
             /\ got' = got
             /\ ak' = [ak EXCEPT !.DerivedKey = DerivedFor(ak, args'.password)]]_vars

\* A failed match has replaced the derived key the Key held by the candidate.
C8_Witness ==
    /\ op = "MatchPassword" /\ ret = FALSE /\ err = "nil"
    /\ Len(ak.DerivedKey) > 0
    /\ ak.DerivedKey = DerivedFor(ak, args.password)
    /\ ak.DerivedKey # args.key

-----------------------------------------------------------------------------
(* ParseAlg as a pure function: the descriptor is drawn from AlgInputs and
   ParseAlg is applied to it once. *)

InitAlg ==
    /\ got = ZeroKey /\ ak = ZeroKey
    /\ apikey = <<>> /\ secret = <<>> /\ decoded = <<>>
    /\ err = "nil" /\ op = "input" /\ ret = None
    /\ kdf = {} /\ secrets = {} /\ nrand = 0
    /\ args \in AlgInputs

CallParseAlg ==
    /\ op = "input"
    /\ LET r == ParseAlg(args)
       IN /\ op' = "ParseAlg"
          /\ ret' = r.alg
          /\ err' = r.err
    /\ UNCHANGED <<got, ak, apikey, secret, decoded, args, kdf, secrets, nrand>>

NextAlg == CallParseAlg

SpecAlg == InitAlg /\ [][NextAlg]_vars

-----------------------------------------------------------------------------
(* C3 *)

RECURSIVE Numeral(_)
\* The decimal numeral of v, without leading zeros.
Numeral(v) ==
    IF v < 10 THEN <<48 + v>> ELSE Numeral(v \div 10) \o <<48 + (v % 10)>>

\* d is a decimal numeral (leading zeros allowed) of the value v.
IsDecimalOf(d, v) ==
    /\ Len(d) > 0
    /\ \A i \in 1..Len(d) : IsDigit(d[i])
    /\ StripZeros(d) = Numeral(v)

\* d is a decimal numeral of some value in lo..hi.
IsDecimalIn(d, lo, hi) == \E v \in lo..hi : IsDecimalOf(d, v)

\* The fields of s around the spaces at positions i < j: what follows the
\* nine bytes of the prefix, what lies between the spaces less its last two
\* bytes, those two bytes, and what follows the second space.
TimeField(s, i) == SubSeq(s, Len(argon2idAlgID) + 1, i - 1)
MemField(s, i, j) == SubSeq(s, i + 1, j - 1 - Len(memSuffix))
UnitField(s, i, j) == SubSeq(s, j - Len(memSuffix), j - 1)
LenField(s, j) == SubSeq(s, j + 1, Len(s))

\* s is "argon2id:" t " " m "MB" " " k with the spaces at i and j.
IsLaidOut(s, i, j) ==
    /\ Len(argon2idAlgID) < i /\ i + Len(memSuffix) < j /\ j <= Len(s)
    /\ SubSeq(s, 1, Len(argon2idAlgID)) = argon2idAlgID
    /\ s[i] = 32 /\ s[j] = 32
    /\ UnitField(s, i, j) = memSuffix

IsDescriptor(s) ==
    \E i, j \in 1..Len(s) :
        /\ IsLaidOut(s, i, j)
        /\ IsDecimalIn(TimeField(s, i), minTime, maxTime)
        /\ IsDecimalIn(MemField(s, i, j), minMem, maxMem)
        /\ IsDecimalIn(LenField(s, j), minKeyLength, maxKeyLength)

IsDescriptorOf(s, tv, mv, kv) ==
    \E i, j \in 1..Len(s) :
        /\ IsLaidOut(s, i, j)
        /\ IsDecimalOf(TimeField(s, i), tv)
        /\ IsDecimalOf(MemField(s, i, j), mv)
        /\ IsDecimalOf(LenField(s, j), kv)

\* C3: ParseAlg returns no error exactly for the prefix "argon2id:" followed
\* by a decimal time cost in [1,5], a space, a decimal memory cost in [16,64]
\* with the suffix "MB", a space and a decimal output length in [16,64]; any
\* other string gets an error and the zero Alg; on success Time, Memory and
\* KeyLen are the three decimal values and String is the input text.
C3_ParseAlgExact ==
    op = "ParseAlg" =>
        /\ (err = "nil") <=> IsDescriptor(args)
        /\ err # "nil" => ret = ZeroAlg
        /\ err = "nil" =>
              /\ ret.String = args
              /\ IsDescriptorOf(args, ret.Time, ret.Memory, ret.KeyLen)

\* A descriptor with leading zeros in every field has been accepted.
C3_Witness ==
    /\ op = "ParseAlg" /\ err = "nil"
    /\ args = argon2idAlgID \o <<48, 51, 32, 48, 54, 52, 77, 66, 32, 48, 48, 51, 50>>  \* "03 064MB 0032"
    /\ ret.Time = 3 /\ ret.Memory = 64 /\ ret.KeyLen = 32

-----------------------------------------------------------------------------
(* Decode under the Basic-auth layout, "clientid:alg.salt.password", whose Key
   has no display name. *)

ZeroBasicKey == [alg |-> ZeroAlg, Salt |-> <<>>, DerivedKey |-> <<>>, ClientID |-> <<>>]

DecodeBasicError(e) == [ak |-> ZeroBasicKey, password |-> <<>>, err |-> e]

\* Decode(apikey), the Basic-auth layout. Only a text of more than two
\* ':'-separated parts is rejected, and parts[1] is read next: on a text
\* without ':' the index is out of range and the call panics, returning
\* nothing.
DecodeBasic(in) ==
    LET b == DecodeString(in) IN
    IF b.err # "nil" THEN DecodeBasicError(b.err)
    ELSE
    LET outer == SplitN(b.bytes, colon, 3) IN
    IF Len(outer) > 2 THEN DecodeBasicError("outer structure invalid")
    ELSE IF Len(outer) < 2 THEN DecodeBasicError("panic")
    ELSE
    LET parts == SplitN(Part(outer, 1), dot, apiKeySecretParts + 1) IN
    IF Len(parts) # apiKeySecretParts THEN DecodeBasicError("invalid number of parts")
    ELSE
    LET p == ParseAlg(Part(parts, basicAlgPart)) IN
    IF p.err # "nil" THEN DecodeBasicError(p.err)
    ELSE
    LET salt == DecodeString(Part(parts, basicSaltPart)) IN
    IF salt.err # "nil" THEN DecodeBasicError(salt.err)
    ELSE
    LET password == DecodeString(Part(parts, basicPasswordPart)) IN
    IF password.err # "nil" THEN DecodeBasicError(password.err)
    ELSE [ak |-> [alg |-> p.alg, Salt |-> salt.bytes, DerivedKey |-> <<>>,
                  ClientID |-> Part(outer, 0)],
          password |-> password.bytes, err |-> "nil"]

-----------------------------------------------------------------------------
(* Decode as a pure function: the artifact is drawn from DecodeInputs and
   Decode is applied to it once, under either layout. *)

\* What precedes the descriptor in the decoded text
DecodeHeads == {
    <<>>,
    <<99, 105, 100, 58>>,    \* "cid:"
    <<110, 46, 99, 105, 100, 46>>,    \* "n.cid."
    <<99, 105, 100, 58, 120, 58>> }    \* "cid:x:"

\* The descriptor field
DecodeAlgs == {
    StandardAlg,
    <<97, 114, 103, 111, 110, 50, 105, 100, 32, 51, 32, 54, 52, 77, 66, 32, 51, 50>>,    \* "argon2id 3 64MB 32"
    BadAlg }

\* What follows the descriptor
DecodeTails == {
    <<46, 99, 50, 70, 115, 100, 65, 61, 61, 46, 99, 72, 99, 61>>,    \* ".c2FsdA==.cHc="
    <<46, 99, 50, 70, 115, 100, 65, 61, 61>>,    \* ".c2FsdA=="
    <<46, 99, 50, 70, 115, 42, 65, 61, 61, 46, 99, 72, 99, 61>>,    \* ".c2Fs*A==.cHc="
    <<46, 99, 50, 70, 115, 100, 65, 61, 61, 46, 99, 72, 99, 61, 46, 120>>,    \* ".c2FsdA==.cHc=.x"
    <<46, 99, 50, 70, 115, 100, 65, 61, 61, 46, 99>> }    \* ".c2FsdA==.c"

DecodeTexts == { h \o a \o t : h \in DecodeHeads, a \in DecodeAlgs, t \in DecodeTails }

\* The artifacts: the encoded texts, the empty string, the encoding of a text
\* without separators, and strings that are not base64url.
DecodeInputs ==
    { EncodeToString(t) : t \in DecodeTexts }
        \cup { <<>>,
               EncodeToString(<<99, 105, 100>>),    \* "cid"
               <<97, 98, 99>>,    \* "abc"
               <<33, 33, 33, 33>> }    \* "!!!!"

InitDecode ==
    /\ got = ZeroKey /\ ak = ZeroKey
    /\ secret = <<>> /\ decoded = <<>>
    /\ err = "nil" /\ op = "input" /\ args = None /\ ret = None
    /\ kdf = {} /\ secrets = {} /\ nrand = 0
    /\ apikey \in DecodeInputs

CallDecodeInput ==
    /\ op = "input"
    /\ LET r == Decode(apikey)
       IN /\ ak' = r.ak
          /\ decoded' = r.password
          /\ err' = r.err
    /\ op' = "Decode"
    /\ UNCHANGED <<got, apikey, secret, args, ret, kdf, secrets, nrand>>

CallDecodeBasic ==
    /\ op = "input"
    /\ LET r == DecodeBasic(apikey)
       IN /\ ak' = r.ak
          /\ decoded' = r.password
          /\ err' = r.err
    /\ op' = "DecodeBasic"
    /\ UNCHANGED <<got, apikey, secret, args, ret, kdf, secrets, nrand>>

NextDecode == CallDecodeInput \/ CallDecodeBasic

SpecDecode == InitDecode /\ [][NextDecode]_vars

-----------------------------------------------------------------------------
(* C9 *)

\* Every field of s between the separators
Fields(s, sep) == SplitN(s, sep, Len(s) + 1)

\* The artifact is not one of the display-name layout.
MalformedDisplayName(in) ==
    LET b == DecodeString(in)
        f == Fields(b.bytes, dot)
    IN \/ b.err # "nil"
       \/ Len(f) # 5
       \/ ParseAlg(f[3]).err # "nil"
       \/ DecodeString(f[4]).err # "nil"
       \/ DecodeString(f[5]).err # "nil"

\* The artifact is not one of the Basic-auth layout.
MalformedBasicAuth(in) ==
    LET b == DecodeString(in)
        o == Fields(b.bytes, colon)
        f == Fields(o[2], dot)
    IN \/ b.err # "nil"
       \/ Len(o) # 2
       \/ Len(f) # 3
       \/ ParseAlg(f[1]).err # "nil"
       \/ DecodeString(f[2]).err # "nil"
       \/ DecodeString(f[3]).err # "nil"

\* C9: under both layouts Decode never crashes, an error comes with the zero
\* Key and no secret, and there is an error when the artifact is not
\* base64url, when its text does not split into the fields of the layout,
\* when the descriptor fails ParseAlg, or when the salt or the secret field is
\* not base64url.
C9_DecodeFailsCleanly ==
    /\ op \in {"Decode", "DecodeBasic"} => err # "panic"
    /\ (op = "Decode" /\ err # "nil") => (ak = ZeroKey /\ decoded = <<>>)
    /\ (op = "DecodeBasic" /\ err # "nil") => (ak = ZeroBasicKey /\ decoded = <<>>)
    /\ (op = "Decode" /\ MalformedDisplayName(apikey)) => err # "nil"
    /\ (op = "DecodeBasic" /\ MalformedBasicAuth(apikey)) => err # "nil"

\* The display-name layout alone: Decode fails cleanly on every artifact.
C9_DisplayNameFailsCleanly ==
    op = "Decode" =>
        /\ err # "panic"
        /\ err # "nil" => (ak = ZeroKey /\ decoded = <<>>)
        /\ (err # "nil") <=> MalformedDisplayName(apikey)

-----------------------------------------------------------------------------
(* C11 *)

\* The Key whose algorithm the last call derived with
DerivingKey == IF op = "Generate" THEN got ELSE ak

\* Every argon2.IDKey call of the last call has the memory argument f[n] for
\* the value n of the memory field of the Key's descriptor.
MemoryArgumentIs(f) ==
    LET s == DerivingKey.alg.String IN
    op \in {"Generate", "RecoverKey", "MatchPassword"} =>
        \A c \in kdf :
            \A i, j \in 1..Len(s) :
                IsLaidOut(s, i, j) =>
                    \A n \in minMem..maxMem :
                        IsDecimalOf(MemField(s, i, j), n) => c.memory = f[n]

\* C11: for a descriptor whose memory field is "N MB" the memory argument that
\* Generate and RecoverKey hand to argon2.IDKey, which counts KiB, is N*1024:
\* 65536 for "64MB" and 16384 for "16MB".
C11_MemoryInMegabytes == MemoryArgumentIs([n \in minMem..maxMem |-> n * 1024])

\* What the code hands over is the number of the memory field itself: 64 for
\* "64MB" and 16 for "16MB".
C11_MemoryAsWritten == MemoryArgumentIs([n \in minMem..maxMem |-> n])

\* A derivation under "argon2id:3 64MB 32" has been made with memory 64.
C11_Reached ==
    /\ op \in {"Generate", "RecoverKey", "MatchPassword"}
    /\ DerivingKey.alg.String = StandardAlg
    /\ \E c \in kdf : c.memory = 64

====
